---- MODULE Spec2Model ----
(***************************************************************************)
(* Model of the bigheads worker: the retention job (worker/delete.py,      *)
(* clean_old_episodes) and the ingestion job (worker/get_new_episode.py,   *)
(* process_episodes), both run against a data store (tables "episodes" and *)
(* "watched_episodes"), an object-store bucket and the local downloads     *)
(* directory.  Every remote call is one step and may raise.                *)
(***************************************************************************)
EXTENDS Integers, Sequences, FiniteSets, TLC

VARIABLES
    episodes,                 \* table "episodes": a set of rows
    watched_episodes,         \* table "watched_episodes": rows per episode_id
    bucket,                   \* blob names present under gcp_folder_name
    downloads,                \* file names present under downloads/
    pc,                       \* position of clean_old_episodes
    idx,                      \* index of the loop the run is in
    old_episodes,             \* delete.py:173
    safe_to_delete,           \* delete.py:192
    successful_episode_mp3s,  \* delete.py:201
    summary,                  \* the counts logged at delete.py:208
    hist,                     \* calls issued and exceptions caught in the run
    init0,                    \* the stores as the run found them
    feed,                     \* feed_data["rss"]["channel"]["item"]
    max_episodes,             \* get_new_episode.py:382
    ing,                      \* position and locals of process_episodes
    call                      \* a call of one of the string functions

store == <<episodes, watched_episodes, bucket, downloads>>
rvars == <<pc, idx, old_episodes, safe_to_delete,
           successful_episode_mp3s, summary, hist, init0>>
ivars == <<feed, max_episodes, ing, call>>
vars == <<store, rvars, ivars>>

(***************************************************************************)
(* Bounds of the model.                                                    *)
(***************************************************************************)
NEpisodes == 2
MaxWatched == 1
MaxEvents == 1

Ids == 1..NEpisodes
None == "None"

(***************************************************************************)
(* Dates.  The code compares 'YYYY-MM-DD' strings, whose lexicographic     *)
(* order is the order of the days they name; a date is modelled by its day *)
(* number.                                                                 *)
(***************************************************************************)
days_ago == 15
get_today_date == days_ago + 1
get_date_days_ago(n) == get_today_date - n
Dates == (get_date_days_ago(days_ago) - 1) .. get_date_days_ago(days_ago)

(***************************************************************************)
(* Links.  A public URL is modelled by its path segments; the file name of *)
(* episode e's audio is the number e.                                      *)
(***************************************************************************)
gcp_folder_name == "mp3"
PublicUrl(name) == <<"bucket", gcp_folder_name, name>>
extract_filename_from_url(url) == url[Len(url)]

Row(e, d, l) ==
    [id |-> e, publication_date |-> d, original_mp3_link |-> e, mp3_link |-> l,
     duration |-> [float |-> 0]]

RECURSIVE SortedRows(_)
SortedRows(S) ==
    IF S = {} THEN <<>>
    ELSE LET r == CHOOSE x \in S : \A y \in S : x.id <= y.id
         IN <<r>> \o SortedRows(S \ {r})

Range(s) == {s[k] : k \in 1..Len(s)}

\* get_old_episodes with the cutoff one day earlier.
get_old_episodes_earlier_cutoff ==
    LET rows == {r \in episodes : r.publication_date < get_date_days_ago(days_ago + 1)}
        sorted == SortedRows(rows)
    IN [k \in 1..Len(sorted) |-> [id |-> sorted[k].id, mp3_link |-> sorted[k].mp3_link]]

get_old_episodes ==
    LET rows == {r \in episodes : r.publication_date < get_date_days_ago(days_ago)}
        sorted == SortedRows(rows)
    IN [k \in 1..Len(sorted) |-> [id |-> sorted[k].id, mp3_link |-> sorted[k].mp3_link]]

episode_uuids == [k \in 1..Len(old_episodes) |-> old_episodes[k].id]
mp3_links == [k \in 1..Len(old_episodes) |-> old_episodes[k].mp3_link]

\* What the run has done so far: the delete calls it issued (wdel, edel, adel,
\* ldel), the loop bodies it entered (etried, atried), the episodes and files a
\* call raised for in each phase (wraised, eraised, araised) or did not do its
\* work for (failed), and the number of failed calls and of external inserts.
\* raced: the episodes a WatchedEpisode row was inserted for between the double
\* check and the Episode delete.
\* In a run that follows another one: the old episodes the earlier run left
\* something of (unfinished), and those of them whose Episode row it left (kept).
NoHist ==
    [wdel |-> {}, edel |-> {}, adel |-> {}, ldel |-> {},
     failed |-> {}, wraised |-> {}, etried |-> {}, eraised |-> {},
     atried |-> {}, araised |-> {},
     storage_failed |-> FALSE, faults |-> 0, inserts |-> 0, raced |-> {},
     run |-> "first", unfinished |-> {}, kept |-> {}]

\* process_episodes is not running.
IngIdle ==
    [pc |-> "idle", run |-> "first", k |-> 0, count |-> 0, episode |-> <<>>,
     mp3_filename |-> <<>>,
     processed_episodes |-> <<>>, exception |-> None, failures |-> <<0, 0>>,
     inserted |-> <<0, 0>>, fetched |-> <<0, 0>>]

\* None of the string functions is being called.
NoCall == [fn |-> "none"]

\* Nothing is logged yet at delete.py:208.
NoSummary == [logged |-> FALSE, found |-> 0, processed |-> 0]

RECURSIVE Total(_, _)
Total(w, n) == IF n = 0 THEN 0 ELSE w[n] + Total(w, n - 1)

Init ==
    /\ \E date \in [Ids -> Dates], link \in [Ids -> BOOLEAN] :
         /\ episodes = {Row(e, date[e], IF link[e] THEN PublicUrl(e) ELSE None) : e \in Ids}
         /\ bucket \in SUBSET {e \in Ids : link[e]}
         /\ downloads \in {{}, {e \in Ids : link[e]}}
    /\ watched_episodes \in {w \in [Ids -> 0..MaxWatched] : Total(w, NEpisodes) <= MaxWatched}
    /\ pc = "start"
    /\ idx = 0
    /\ old_episodes = <<>>
    /\ safe_to_delete = <<>>
    /\ successful_episode_mp3s = <<>>
    /\ summary = NoSummary
    /\ hist = NoHist
    /\ init0 = [episodes |-> episodes, watched_episodes |-> watched_episodes,
                bucket |-> bucket, downloads |-> downloads]
    /\ feed = <<>>
    /\ max_episodes = 0
    /\ ing = IngIdle
    /\ call = NoCall

(***************************************************************************)
(* Retention job: clean_old_episodes and the functions it calls.  A call   *)
(* to the store or to the bucket either returns or raises; at most         *)
(* MaxEvents calls fail or external inserts happen during one run.         *)
(***************************************************************************)
Rows(uuid) == watched_episodes[uuid]
MayFail == hist.faults + hist.inserts < MaxEvents
Fault(h) == [h EXCEPT !.faults = @ + 1]
Note(h, field, x) == [h EXCEPT ![field] = @ \cup {x}]

\* GetOldEpisodes without the early return of delete.py:175-177.
GetOldEpisodesNoReturn ==
    /\ pc = "start"
    /\ \/ /\ MayFail
          /\ pc' = "raised"
          /\ hist' = Fault(hist)
          /\ UNCHANGED <<idx, old_episodes>>
       \/ /\ old_episodes' = get_old_episodes
          /\ hist' = hist
          /\ pc' = "precheck"
          /\ idx' = 1
    /\ UNCHANGED <<store, safe_to_delete, successful_episode_mp3s, summary, init0, ivars>>

\* delete.py:170-181: create the client, query the old episodes, return when
\* there are none.  An exception here is not caught.
GetOldEpisodes ==
    /\ pc = "start"
    /\ \/ /\ MayFail
          /\ pc' = "raised"
          /\ hist' = Fault(hist)
          /\ UNCHANGED <<idx, old_episodes>>
       \/ /\ old_episodes' = get_old_episodes
          /\ hist' = hist
          /\ IF old_episodes' = <<>>
             THEN pc' = "done" /\ idx' = idx
             ELSE pc' = "precheck" /\ idx' = 1
    /\ UNCHANGED <<store, safe_to_delete, successful_episode_mp3s, summary, init0, ivars>>

\* delete.py:183-189: the read of every uuid's watched_episodes, not inside a
\* try.  problematic_episodes is only logged and is left out of the state.
PreCheck ==
    /\ pc = "precheck"
    /\ \/ /\ MayFail
          /\ pc' = "raised"
          /\ hist' = Fault(hist)
          /\ idx' = idx
       \/ /\ hist' = hist
          /\ IF idx < Len(episode_uuids)
             THEN idx' = idx + 1 /\ pc' = pc
             ELSE idx' = 1 /\ pc' = "dw_delete"
    /\ UNCHANGED <<store, old_episodes, safe_to_delete,
                   successful_episode_mp3s, summary, init0, ivars>>

\* The end of one iteration of delete_watched_episodes' loop; after the last
\* one, delete.py:192-198: the sleep, then delete_episodes(safe_to_delete).
DwNext(safe) ==
    IF idx < Len(episode_uuids)
    THEN idx' = idx + 1 /\ pc' = "dw_delete"
    ELSE idx' = 1 /\ pc' = IF safe = <<>> THEN "mp3_init" ELSE "de_check"

\* DwCatch with the exception raised again after it is logged.
DwCatchReraise(uuid) ==
    /\ hist' = Fault(Note(Note(Note(hist, "wdel", uuid), "wraised", uuid), "failed", uuid))
    /\ pc' = "raised"
    /\ idx' = idx

\* delete.py:117-118: the exception of one uuid is logged, the loop goes on.
DwCatch(uuid) ==
    /\ hist' = Fault(Note(Note(Note(hist, "wdel", uuid), "wraised", uuid), "failed", uuid))
    /\ DwNext(safe_to_delete)

\* delete.py:105-107: the delete of the uuid's watched_episodes.  It raises, or
\* returns having deleted every row, or returns with rows left.
DwDelete ==
    /\ pc = "dw_delete"
    /\ LET uuid == episode_uuids[idx] IN
       \/ /\ MayFail
          /\ DwCatch(uuid)
          /\ watched_episodes' = watched_episodes
       \/ /\ watched_episodes' = [watched_episodes EXCEPT ![uuid] = 0]
          /\ hist' = Note(hist, "wdel", uuid)
          /\ pc' = "dw_verify"
          /\ idx' = idx
       \/ /\ MayFail
          /\ \E left \in 1..Rows(uuid) :
               watched_episodes' = [watched_episodes EXCEPT ![uuid] = left]
          /\ hist' = Fault(Note(Note(hist, "wdel", uuid), "failed", uuid))
          /\ pc' = "dw_verify"
          /\ idx' = idx
    /\ UNCHANGED <<episodes, bucket, downloads, old_episodes,
                   safe_to_delete, successful_episode_mp3s, summary, init0, ivars>>

\* delete.py:117-118 for the verifying read.
DwVerifyCatch(uuid) ==
    /\ hist' = Fault(Note(Note(hist, "wraised", uuid), "failed", uuid))
    /\ safe_to_delete' = safe_to_delete
    /\ DwNext(safe_to_delete)

\* DwVerify without the test of delete.py:111: every uuid read is safe.
DwVerifyNoCheck ==
    /\ pc = "dw_verify"
    /\ LET uuid == episode_uuids[idx] IN
       \/ /\ MayFail
          /\ DwVerifyCatch(uuid)
       \/ /\ safe_to_delete' = Append(safe_to_delete, uuid)
          /\ hist' = hist
          /\ DwNext(safe_to_delete')
    /\ UNCHANGED <<store, old_episodes, successful_episode_mp3s, summary, init0, ivars>>

\* delete.py:109-115: the verifying read; the uuid is safe when no row is left.
DwVerify ==
    /\ pc = "dw_verify"
    /\ LET uuid == episode_uuids[idx] IN
       \/ /\ MayFail
          /\ DwVerifyCatch(uuid)
       \/ /\ safe_to_delete' =
                IF Rows(uuid) = 0 THEN Append(safe_to_delete, uuid)
                ELSE safe_to_delete
          /\ hist' = hist
          /\ DwNext(safe_to_delete')
    /\ UNCHANGED <<store, old_episodes, successful_episode_mp3s, summary, init0, ivars>>

\* The end of one iteration of delete_episodes' loop.
DeNext ==
    IF idx < Len(safe_to_delete)
    THEN idx' = idx + 1 /\ pc' = "de_check"
    ELSE idx' = 1 /\ pc' = "mp3_init"

\* DeCatch with the exception raised again after it is logged.
DeCatchReraise == pc' = "raised" /\ idx' = idx

\* delete.py:93-94: the exception of one uuid is logged, the loop goes on.
DeCatch == DeNext

\* DeCheck without the test of delete.py:86-88.
DeCheckNoTest ==
    /\ pc = "de_check"
    /\ LET uuid == safe_to_delete[idx] IN
       \/ /\ MayFail
          /\ hist' = Fault(Note(Note(Note(hist, "etried", uuid), "eraised", uuid), "failed", uuid))
          /\ DeCatch
       \/ /\ hist' = Note(hist, "etried", uuid)
          /\ pc' = "de_delete"
          /\ idx' = idx
    /\ UNCHANGED <<store, old_episodes, safe_to_delete,
                   successful_episode_mp3s, summary, init0, ivars>>

\* delete.py:83-88: the double check before the Episode delete.
DeCheck ==
    /\ pc = "de_check"
    /\ LET uuid == safe_to_delete[idx] IN
       \/ /\ MayFail
          /\ hist' = Fault(Note(Note(Note(hist, "etried", uuid), "eraised", uuid), "failed", uuid))
          /\ DeCatch
       \/ /\ Rows(uuid) > 0
          /\ hist' = Note(Note(hist, "etried", uuid), "failed", uuid)
          /\ DeNext
       \/ /\ Rows(uuid) = 0
          /\ hist' = Note(hist, "etried", uuid)
          /\ pc' = "de_delete"
          /\ idx' = idx
    /\ UNCHANGED <<store, old_episodes, safe_to_delete,
                   successful_episode_mp3s, summary, init0, ivars>>

\* DeDelete taking the uuid from episode_uuids instead of the list it was given.
DeDeleteWrongList ==
    /\ pc = "de_delete"
    /\ LET uuid == episode_uuids[idx] IN
       \/ /\ MayFail
          /\ hist' = Fault(Note(Note(Note(hist, "edel", uuid), "eraised", uuid), "failed", uuid))
          /\ episodes' = episodes
          /\ DeCatch
       \/ /\ episodes' = {r \in episodes : r.id # uuid}
          /\ hist' = Note(hist, "edel", uuid)
          /\ DeNext
    /\ UNCHANGED <<watched_episodes, bucket, downloads, old_episodes,
                   safe_to_delete, successful_episode_mp3s, summary, init0, ivars>>

\* delete.py:90-94: the delete of the Episode row.
DeDelete ==
    /\ pc = "de_delete"
    /\ LET uuid == safe_to_delete[idx] IN
       \/ /\ MayFail
          /\ hist' = Fault(Note(Note(Note(hist, "edel", uuid), "eraised", uuid), "failed", uuid))
          /\ episodes' = episodes
          /\ DeCatch
       \/ /\ episodes' = {r \in episodes : r.id # uuid}
          /\ hist' = Note(hist, "edel", uuid)
          /\ DeNext
    /\ UNCHANGED <<watched_episodes, bucket, downloads, old_episodes,
                   safe_to_delete, successful_episode_mp3s, summary, init0, ivars>>

\* delete.py:200-204: the links handed to delete_mp3_files.
SuccessfulEpisodeMp3s ==
    LET F[k \in 0..Len(episode_uuids)] ==
            IF k = 0 THEN <<>>
            ELSE IF episode_uuids[k] \in Range(safe_to_delete)
                 THEN Append(F[k - 1], mp3_links[k])
                 ELSE F[k - 1]
    IN F[Len(episode_uuids)]

\* delete.py:200-206, 132-135 and 163-164: build the list, open the bucket.
Mp3Init ==
    /\ pc = "mp3_init"
    /\ successful_episode_mp3s' = SuccessfulEpisodeMp3s
    /\ \/ /\ MayFail
          /\ hist' = Fault([hist EXCEPT !.storage_failed = TRUE])
          /\ pc' = "summary"
          /\ idx' = idx
       \/ /\ hist' = hist
          /\ idx' = 1
          /\ pc' = IF successful_episode_mp3s' = <<>> THEN "summary" ELSE "mp3_exists"
    /\ UNCHANGED <<store, old_episodes, safe_to_delete, summary, init0, ivars>>

\* The end of one iteration of delete_mp3_files' loop.
Mp3Next ==
    IF idx < Len(successful_episode_mp3s)
    THEN idx' = idx + 1 /\ pc' = "mp3_exists"
    ELSE idx' = idx /\ pc' = "summary"

\* delete.py:160-161: the exception of one link is logged, the loop goes on.
Mp3Catch == Mp3Next

\* delete.py:137-152: skip a missing link, else look the blob up.
Mp3Exists ==
    /\ pc = "mp3_exists"
    /\ LET mp3_link == successful_episode_mp3s[idx] IN
       \/ /\ mp3_link = None
          /\ hist' = hist
          /\ Mp3Next
       \/ /\ mp3_link # None
          /\ MayFail
          /\ hist' = Fault(Note(Note(hist, "atried", extract_filename_from_url(mp3_link)),
                                "araised", extract_filename_from_url(mp3_link)))
          /\ Mp3Catch
       \/ /\ mp3_link # None
          /\ extract_filename_from_url(mp3_link) \in bucket
          /\ hist' = Note(hist, "atried", extract_filename_from_url(mp3_link))
          /\ pc' = "mp3_delete"
          /\ idx' = idx
       \/ /\ mp3_link # None
          /\ extract_filename_from_url(mp3_link) \notin bucket
          /\ hist' = Note(hist, "atried", extract_filename_from_url(mp3_link))
          /\ pc' = "mp3_local"
          /\ idx' = idx
    /\ UNCHANGED <<store, old_episodes, safe_to_delete,
                   successful_episode_mp3s, summary, init0, ivars>>

\* delete.py:149-150: the delete of the blob.
Mp3Delete ==
    /\ pc = "mp3_delete"
    /\ LET filename == extract_filename_from_url(successful_episode_mp3s[idx]) IN
       \/ /\ MayFail
          /\ hist' = Fault(Note(Note(hist, "adel", filename), "araised", filename))
          /\ bucket' = bucket
          /\ Mp3Catch
       \/ /\ hist' = Note(hist, "adel", filename)
          /\ bucket' = bucket \ {filename}
          /\ pc' = "mp3_local"
          /\ idx' = idx
    /\ UNCHANGED <<episodes, watched_episodes, downloads, old_episodes,
                   safe_to_delete, successful_episode_mp3s, summary, init0, ivars>>

\* delete.py:154-158: the local copy, removed when there is one.
Mp3Local ==
    /\ pc = "mp3_local"
    /\ LET filename == extract_filename_from_url(successful_episode_mp3s[idx]) IN
       \/ /\ filename \notin downloads
          /\ hist' = hist
          /\ downloads' = downloads
          /\ Mp3Next
       \/ /\ filename \in downloads
          /\ hist' = Note(hist, "ldel", filename)
          /\ downloads' = downloads \ {filename}
          /\ Mp3Next
       \/ /\ filename \in downloads
          /\ MayFail
          /\ hist' = Fault(Note(Note(hist, "ldel", filename), "araised", filename))
          /\ downloads' = downloads
          /\ Mp3Catch
    /\ UNCHANGED <<episodes, watched_episodes, bucket, old_episodes,
                   safe_to_delete, successful_episode_mp3s, summary, init0, ivars>>

\* delete.py:208: the final summary.
Summary ==
    /\ pc = "summary"
    /\ summary' = [logged |-> TRUE, found |-> Len(old_episodes),
                   processed |-> Len(safe_to_delete)]
    /\ pc' = "done"
    /\ UNCHANGED <<store, idx, old_episodes, safe_to_delete,
                   successful_episode_mp3s, hist, init0, ivars>>

\* The application that owns watched_episodes records a viewer's watch while
\* the retention run is under way.
ExternalInsert ==
    /\ pc \notin {"start", "done", "raised"}
    /\ MayFail
    /\ Total(watched_episodes, NEpisodes) < MaxWatched
    /\ \E e \in Ids :
         /\ watched_episodes' = [watched_episodes EXCEPT ![e] = @ + 1]
         /\ hist' = [hist EXCEPT
                        !.inserts = @ + 1,
                        !.raced = IF pc = "de_delete" /\ safe_to_delete[idx] = e
                                  THEN @ \cup {e} ELSE @]
    /\ UNCHANGED <<episodes, bucket, downloads, pc, idx, old_episodes,
                   safe_to_delete, successful_episode_mp3s, summary, init0, ivars>>

Next ==
    \/ GetOldEpisodes
    \/ PreCheck
    \/ DwDelete
    \/ DwVerify
    \/ DeCheck
    \/ DeDelete
    \/ Mp3Init
    \/ Mp3Exists
    \/ Mp3Delete
    \/ Mp3Local
    \/ Summary
    \/ ExternalInsert

Spec == Init /\ [][Next]_vars

(***************************************************************************)
(* Two retention runs, the second started by the scheduler after the first *)
(* has returned or raised, on the stores the first one left.  Every        *)
(* episode has an audio object when the first run starts.                  *)
(***************************************************************************)
RerunInit ==
    /\ \E date \in [Ids -> Dates] :
         episodes = {Row(e, date[e], PublicUrl(e)) : e \in Ids}
    /\ bucket = Ids
    /\ downloads = {}
    /\ watched_episodes \in {w \in [Ids -> 0..MaxWatched] : Total(w, NEpisodes) <= MaxWatched}
    /\ pc = "start"
    /\ idx = 0
    /\ old_episodes = <<>>
    /\ safe_to_delete = <<>>
    /\ successful_episode_mp3s = <<>>
    /\ summary = NoSummary
    /\ hist = NoHist
    /\ init0 = [episodes |-> episodes, watched_episodes |-> watched_episodes,
                bucket |-> bucket, downloads |-> downloads]
    /\ feed = <<>>
    /\ max_episodes = 0
    /\ ing = IngIdle
    /\ call = NoCall

\* The episodes of the table the first run started on that are before the cutoff.
FirstRunOld ==
    {r.id : r \in {x \in init0.episodes :
                     x.publication_date < get_date_days_ago(days_ago)}}

\* Something of episode e is left: its Episode row, a WatchedEpisode row, or
\* the audio object its mp3_link names.
Leftover(e) ==
    \/ \E r \in episodes : r.id = e
    \/ Rows(e) > 0
    \/ \E r \in init0.episodes :
          r.id = e /\ r.mp3_link # None /\ extract_filename_from_url(r.mp3_link) \in bucket

\* delete.py:211-212, run again: clean_old_episodes starts anew.
StartNextRun ==
    /\ pc \in {"done", "raised"}
    /\ hist.run = "first"
    /\ pc' = "start"
    /\ idx' = 0
    /\ old_episodes' = <<>>
    /\ safe_to_delete' = <<>>
    /\ successful_episode_mp3s' = <<>>
    /\ summary' = NoSummary
    /\ hist' = [NoHist EXCEPT
                   !.run = "second",
                   !.faults = hist.faults,
                   !.inserts = hist.inserts,
                   !.unfinished = {e \in FirstRunOld : Leftover(e)},
                   !.kept = {e \in FirstRunOld : \E r \in episodes : r.id = e}]
    /\ UNCHANGED <<store, init0, ivars>>

RerunNext ==
    \/ Next
    \/ StartNextRun

RerunSpec == RerunInit /\ [][RerunNext]_vars

(***************************************************************************)
(* The retention run on a table in which two episodes may have the same    *)
(* mp3_link.  Ingestion names the stored object by the last path segment   *)
(* of the enclosure URL (get_new_episode.py:333, 451-454), so two episodes *)
(* whose enclosure URLs differ only before that segment get one object and *)
(* one mp3_link.                                                           *)
(***************************************************************************)
AliasInit ==
    /\ \E date \in [Ids -> Dates], name \in [Ids -> 0..NEpisodes] :
         \* name[e] = 0: the row has no mp3_link
         /\ episodes = {Row(e, date[e], IF name[e] = 0 THEN None
                                        ELSE PublicUrl(name[e])) : e \in Ids}
         /\ bucket \in SUBSET ({name[e] : e \in Ids} \ {0})
         /\ downloads \in {{}, {name[e] : e \in Ids} \ {0}}
    /\ watched_episodes \in {w \in [Ids -> 0..MaxWatched] : Total(w, NEpisodes) <= MaxWatched}
    /\ pc = "start"
    /\ idx = 0
    /\ old_episodes = <<>>
    /\ safe_to_delete = <<>>
    /\ successful_episode_mp3s = <<>>
    /\ summary = NoSummary
    /\ hist = NoHist
    /\ init0 = [episodes |-> episodes, watched_episodes |-> watched_episodes,
                bucket |-> bucket, downloads |-> downloads]
    /\ feed = <<>>
    /\ max_episodes = 0
    /\ ing = IngIdle
    /\ call = NoCall

AliasSpec == AliasInit /\ [][Next]_vars

(***************************************************************************)
(* Ingestion job: process_episodes and the functions it calls.  A string   *)
(* is the sequence of its characters.                                      *)
(***************************************************************************)
FeedLen == 2

Digits == {"0", "1", "2", "3", "4", "5", "6", "7", "8", "9"}
DigitValue ==
    ("0" :> 0) @@ ("1" :> 1) @@ ("2" :> 2) @@ ("3" :> 3) @@ ("4" :> 4) @@
    ("5" :> 5) @@ ("6" :> 6) @@ ("7" :> 7) @@ ("8" :> 8) @@ ("9" :> 9)
\* int() of two decimal digits.
Int2(s, i) == DigitValue[s[i]] * 10 + DigitValue[s[i + 1]]

\* get_new_episode.py:92-93: re.match of ^([0-9]{2}):([0-9]{2}):([0-9]{2})$;
\* Python's $ also matches before one trailing newline.
MatchesPattern(duration) ==
    /\ \/ Len(duration) = 8
       \/ Len(duration) = 9 /\ duration[9] = "\n"
    /\ \A i \in {1, 2, 4, 5, 7, 8} : duration[i] \in Digits
    /\ duration[3] = ":"
    /\ duration[6] = ":"

validate_duration_format(duration) ==
    /\ MatchesPattern(duration)
    /\ Int2(duration, 1) <= 23
    /\ Int2(duration, 4) <= 59
    /\ Int2(duration, 7) <= 59

\* str.split(sep): the parts of str between the occurrences of sep.
RECURSIVE Split(_, _)
Split(str, sep) ==
    LET at == {i \in 1..Len(str) : str[i] = sep}
    IN IF at = {} THEN <<str>>
       ELSE LET i == CHOOSE x \in at : \A y \in at : x <= y
            IN <<SubSeq(str, 1, i - 1)>> \o Split(SubSeq(str, i + 1, Len(str)), sep)

\* int(str) for a string of decimal digits with white space around it; the
\* strings convert_in_seconds converts are of that kind.
Whitespace == {" ", "\n"}
RECURSIVE Strip(_)
Strip(str) ==
    IF str = <<>> THEN str
    ELSE IF str[1] \in Whitespace THEN Strip(Tail(str))
    ELSE IF str[Len(str)] \in Whitespace THEN Strip(SubSeq(str, 1, Len(str) - 1))
    ELSE str
RECURSIVE Decimal(_)
Decimal(digits) ==
    IF digits = <<>> THEN 0
    ELSE Decimal(SubSeq(digits, 1, Len(digits) - 1)) * 10 + DigitValue[digits[Len(digits)]]
int(str) == Decimal(Strip(str))

\* convert_in_seconds with the minutes counted as hours.
convert_in_seconds_minutes_as_hours(duration) ==
    IF ~validate_duration_format(duration)
    THEN [raised |-> "ValueError"]
    ELSE LET parts == Split(duration, ":")
         IN [returned |-> int(parts[1]) * 3600 + int(parts[2]) * 3600 + int(parts[3])]

\* get_new_episode.py:111-124: the seconds, or ValueError for a duration that
\* validate_duration_format rejects.
convert_in_seconds(duration) ==
    IF ~validate_duration_format(duration)
    THEN [raised |-> "ValueError"]
    ELSE LET parts == Split(duration, ":")
         IN [returned |-> int(parts[1]) * 3600 + int(parts[2]) * 60 + int(parts[3])]

\* The part of str before its last sep.
SplitAtLast(str, sep) ==
    LET at == {i \in 1..Len(str) : str[i] = sep}
    IN IF at = {} THEN str
       ELSE SubSeq(str, 1, (CHOOSE i \in at : \A j \in at : i >= j) - 1)

\* str.split(sep, 1)[0], str.endswith, os.path.basename.
SplitFirst(str, sep) ==
    LET at == {i \in 1..Len(str) : str[i] = sep}
    IN IF at = {} THEN str
       ELSE SubSeq(str, 1, (CHOOSE i \in at : \A j \in at : i <= j) - 1)
EndsWith(str, suffix) ==
    /\ Len(str) >= Len(suffix)
    /\ SubSeq(str, Len(str) - Len(suffix) + 1, Len(str)) = suffix
Basename(path) ==
    LET at == {i \in 1..Len(path) : path[i] = "/"}
    IN IF at = {} THEN path
       ELSE SubSeq(path, (CHOOSE i \in at : \A j \in at : i >= j) + 1, Len(path))
DotMp3 == <<".", "m", "p", "3">>

\* get_new_episode.py:359-379: the day of a pubDate, which is a day and a time.
convert_pubdate_format(pub_date_str) == pub_date_str[1]

\* The feed items the model draws from: a well-formed duration, a malformed
\* one, and an item without itunes:duration; enclosure URLs of two MP3 files
\* (one also with a query string) and of a file that is no MP3.
DurationOk == <<"0", "0", ":", "0", "0", ":", "0", "7">>
DurationBad == <<"7">>
UrlA == <<"h", "/", "a", ".", "m", "p", "3">>
UrlAQuery == UrlA \o <<"?", "x">>
UrlB == <<"h", "/", "b", ".", "m", "p", "3">>
UrlOgg == <<"h", "/", "c", ".", "o", "g", "g">>
Item(duration, day, url) ==
    [duration |-> duration, pubDate |-> <<day, "time">>, url |-> url]
\* Items that have no itunes:duration, no enclosure, no pubDate.
ItemNoDuration(day, url) == [pubDate |-> <<day, "time">>, url |-> url]
ItemNoEnclosure(duration, day) == [duration |-> duration, pubDate |-> <<day, "time">>]
ItemNoPubDate(duration, url) == [duration |-> duration, url |-> url]
\* The lengths mutagen may measure, in seconds.
Lengths == {convert_in_seconds(DurationOk).returned + 1}
FirstDay == CHOOSE d \in Dates : \A x \in Dates : d <= x
Items ==
    {ItemNoDuration(FirstDay, UrlA), Item(DurationBad, FirstDay, UrlA),
     Item(DurationOk, FirstDay, UrlOgg),
     ItemNoEnclosure(DurationOk, FirstDay), ItemNoPubDate(DurationOk, UrlB)}
    \cup {Item(DurationOk, d, u) : d \in Dates, u \in {UrlA, UrlAQuery, UrlB}}

\* get_new_episode.py:202-224.
episode_exists(publication_date) ==
    \E r \in episodes : r.publication_date = publication_date
episode_exists_by_url(original_url) ==
    \E r \in episodes : r.original_mp3_link = original_url

\* The id the store gives a new row.
NewId == IF episodes = {} THEN 1
         ELSE 1 + (CHOOSE n \in {r.id : r \in episodes} : \A r \in episodes : r.id <= n)

\* The episode tables an ingestion run may start from: the dates of the rows
\* differ and so do their original links.
StoredRow(n, d, u) ==
    [id |-> n, publication_date |-> d, original_mp3_link |-> u,
     mp3_link |-> PublicUrl(Basename(u)),
     duration |-> [float |-> convert_in_seconds(DurationOk).returned]]
Tables ==
    {{}}
    \cup {{StoredRow(1, d, u)} : d \in Dates, u \in {UrlA, UrlB}}
    \cup {{StoredRow(1, d, u), StoredRow(2, d2, u2)} :
            <<d, d2, u, u2>> \in {q \in Dates \X Dates \X {UrlA} \X {UrlB} : q[1] # q[2]}}

IngestInit ==
    /\ episodes \in Tables
    /\ watched_episodes = [e \in Ids |-> 0]
    /\ bucket = {extract_filename_from_url(r.mp3_link) : r \in episodes}
    /\ downloads = {}
    /\ pc = "idle"
    /\ idx = 0
    /\ old_episodes = <<>>
    /\ safe_to_delete = <<>>
    /\ successful_episode_mp3s = <<>>
    /\ summary = NoSummary
    /\ hist = NoHist
    /\ init0 = [episodes |-> episodes, watched_episodes |-> watched_episodes,
                bucket |-> bucket, downloads |-> downloads]
    /\ feed \in [1..FeedLen -> Items]
    /\ max_episodes \in 1..FeedLen
    /\ ing = [IngIdle EXCEPT !.pc = "item", !.k = 1]
    /\ call = NoCall

Run == IF ing.run = "first" THEN 1 ELSE 2
\* The calls that failed so far, in the first run and in the second.
IngMayFail == ing.failures[1] + ing.failures[2] < MaxEvents
IngFault(g) == [g EXCEPT !.failures[Run] = @ + 1]
\* The for loop of get_new_episode.py:402 goes to its next item, or ends.
NextItem(g) ==
    IF ing.k < Len(feed)
    THEN [g EXCEPT !.pc = "item", !.k = @ + 1, !.episode = <<>>,
                 !.mp3_filename = <<>>]
    ELSE [g EXCEPT !.pc = "returned", !.episode = <<>>, !.mp3_filename = <<>>]
\* get_new_episode.py:462, or the break of line 407.
Return(g) == [g EXCEPT !.pc = "returned", !.episode = <<>>, !.mp3_filename = <<>>]
\* get_new_episode.py:463-465: an exception raised inside the loop ends the run.
Raise(g, exc) == [Return(g) EXCEPT !.exception = exc]

\* get_new_episode.py:460: an item that was downloaded counts.
Counted(g) == NextItem([g EXCEPT !.count = @ + 1])

\* get_new_episode.py:431-433: an item that is skipped as existing counts too.
SkippedNoCount(g) ==
    IF ing.k < Len(feed)
    THEN [g EXCEPT !.pc = "item", !.k = @ + 1, !.episode = <<>>,
                 !.mp3_filename = <<>>]
    ELSE [g EXCEPT !.pc = "returned", !.episode = <<>>, !.mp3_filename = <<>>]
Skipped(g) == NextItem([g EXCEPT !.count = @ + 1])

\* get_new_episode.py:430: the publication date alone.
AlreadyInDatabaseByDate(episode) == episode_exists(episode.publication_date)
\* get_new_episode.py:430: the item is already in the database.
AlreadyInDatabase(episode) ==
    \/ episode_exists(episode.publication_date)
    \/ episode_exists_by_url(episode.original_mp3_link)

\* get_new_episode.py:402-433: one item up to the existence check.
ProcessItem ==
    /\ ing.pc = "item"
    /\ LET item == feed[ing.k]
           original_mp3_url == SplitFirst(item.url, "?")
           episode == [publication_date |-> convert_pubdate_format(item.pubDate),
                       original_mp3_link |-> original_mp3_url]
       IN
       \/ /\ "duration" \notin DOMAIN item
          /\ ing' = Raise(ing, "KeyError")
       \/ /\ "duration" \in DOMAIN item
          /\ ~validate_duration_format(item.duration)
          /\ ing' = NextItem(ing)
       \/ /\ "duration" \in DOMAIN item
          /\ validate_duration_format(item.duration)
          /\ ing.count >= max_episodes
          /\ ing' = Return(ing)
       \/ /\ "duration" \in DOMAIN item
          /\ validate_duration_format(item.duration)
          /\ ing.count < max_episodes
          /\ {"pubDate", "url"} \ DOMAIN item # {}
          /\ ing' = Raise(ing, "KeyError")
       \/ /\ "duration" \in DOMAIN item
          /\ validate_duration_format(item.duration)
          /\ ing.count < max_episodes
          /\ {"pubDate", "url"} \subseteq DOMAIN item
          /\ ~EndsWith(original_mp3_url, DotMp3)
          /\ ing' = NextItem(ing)
       \/ /\ "duration" \in DOMAIN item
          /\ validate_duration_format(item.duration)
          /\ ing.count < max_episodes
          /\ {"pubDate", "url"} \subseteq DOMAIN item
          /\ EndsWith(original_mp3_url, DotMp3)
          /\ \/ /\ IngMayFail
                /\ ing' = Raise(IngFault(ing), "call")
             \/ /\ AlreadyInDatabase(episode)
                /\ ing' = Skipped(ing)
             \/ /\ ~AlreadyInDatabase(episode)
                /\ ing' = [ing EXCEPT !.pc = "download", !.episode = episode]
    /\ UNCHANGED <<store, rvars, feed, max_episodes, call>>

\* get_new_episode.py:319-356 and 435-448: download the file unless it is
\* already there, then measure it; a failed measure falls back on the feed.
DownloadMp3 ==
    /\ ing.pc = "download"
    /\ LET item == feed[ing.k]
           filename == Basename(SplitFirst(ing.episode.original_mp3_link, "?"))
           got == [ing EXCEPT !.pc = "upload", !.mp3_filename = filename,
                              !.fetched[Run] = @ + 1]
       IN
       \/ /\ filename \notin downloads
          /\ IngMayFail
          /\ ing' = NextItem(IngFault([ing EXCEPT !.fetched[Run] = @ + 1]))
          /\ downloads' = downloads
       \/ /\ downloads' = downloads \cup {filename}
          /\ \E length \in Lengths :
                ing' = [got EXCEPT !.episode =
                          [publication_date |-> ing.episode.publication_date,
                           original_mp3_link |-> ing.episode.original_mp3_link,
                           duration |-> [float |-> length]]]
       \/ /\ downloads' = downloads \cup {filename}
          /\ IngMayFail
          /\ ing' = [IngFault(got) EXCEPT !.episode =
                        [publication_date |-> ing.episode.publication_date,
                         original_mp3_link |-> ing.episode.original_mp3_link,
                         duration |-> [tuple |-> <<item.duration>>]]]
    /\ UNCHANGED <<episodes, watched_episodes, bucket, rvars, feed, max_episodes, call>>

\* UploadFile without the test of get_new_episode.py:450.
UploadFileUntested ==
    /\ ing.pc = "upload"
    /\ \/ /\ IngMayFail
          /\ ing' = [IngFault(ing) EXCEPT !.pc = "public_url"]
          /\ bucket' = bucket
       \/ /\ bucket' = bucket \cup {ing.mp3_filename}
          /\ ing' = [ing EXCEPT !.pc = "public_url"]
    /\ UNCHANGED <<episodes, watched_episodes, downloads, rvars, feed, max_episodes, call>>

\* get_new_episode.py:139-161 and 450-451, 460.
UploadFile ==
    /\ ing.pc = "upload"
    /\ \/ /\ IngMayFail
          /\ ing' = Counted(IngFault(ing))
          /\ bucket' = bucket
       \/ /\ bucket' = bucket \cup {ing.mp3_filename}
          /\ ing' = [ing EXCEPT !.pc = "public_url"]
    /\ UNCHANGED <<episodes, watched_episodes, downloads, rvars, feed, max_episodes, call>>

\* get_new_episode.py:163-187 and 452-454: an exception ends the run.
GetPublicUrl ==
    /\ ing.pc = "public_url"
    /\ \/ /\ IngMayFail
          /\ ing' = Raise(IngFault(ing), "call")
       \/ ing' = [ing EXCEPT !.pc = "save",
                             !.episode = [publication_date |-> ing.episode.publication_date,
                                          original_mp3_link |-> ing.episode.original_mp3_link,
                                          duration |-> ing.episode.duration,
                                          mp3_link |-> PublicUrl(ing.mp3_filename)]]
    /\ UNCHANGED <<store, rvars, feed, max_episodes, call>>

\* The row save_episode inserts.
NewRow(episode) ==
    [id |-> NewId, publication_date |-> episode.publication_date,
     original_mp3_link |-> episode.original_mp3_link,
     mp3_link |-> episode.mp3_link, duration |-> episode.duration]

\* get_new_episode.py:226-250 and 456-460.  The insert may raise; the store
\* may also refuse a duration that is no number.
SaveEpisode ==
    /\ ing.pc = "save"
    /\ \/ /\ IngMayFail \/ "tuple" \in DOMAIN ing.episode.duration
          /\ ing' = Counted(IngFault(ing))
          /\ episodes' = episodes
       \/ IF episode_exists(ing.episode.publication_date)
          THEN /\ ing' = Counted(ing)
               /\ episodes' = episodes
          ELSE /\ episodes' = episodes \cup {NewRow(ing.episode)}
               /\ ing' = Counted([ing EXCEPT
                                       !.inserted[Run] = @ + 1,
                                       !.processed_episodes = Append(@, ing.episode)])
    /\ UNCHANGED <<watched_episodes, bucket, downloads, rvars, feed, max_episodes, call>>

\* The job is run again, on the same feed and on the table the first run left.
RunAgain ==
    /\ ing.pc = "returned"
    /\ ing.run = "first"
    /\ ing' = [ing EXCEPT !.pc = "item", !.run = "second", !.k = 1, !.count = 0,
                          !.processed_episodes = <<>>, !.exception = None]
    /\ UNCHANGED <<store, rvars, feed, max_episodes, call>>

\* get_new_episode.py:500-501: the second run is over.
Finish ==
    /\ ing.pc = "returned"
    /\ ing.run = "second"
    /\ ing' = [ing EXCEPT !.pc = "done"]
    /\ UNCHANGED <<store, rvars, feed, max_episodes, call>>

IngestNext ==
    \/ ProcessItem
    \/ DownloadMp3
    \/ UploadFile
    \/ GetPublicUrl
    \/ SaveEpisode
    \/ RunAgain
    \/ Finish

IngestSpec == IngestInit /\ [][IngestNext]_vars

(***************************************************************************)
(* The string functions, each called on strings put together from parts:   *)
(* a duration is three fields and two separators with characters after     *)
(* them.                                                                   *)
(***************************************************************************)
MaxSuffix == 2

Fields ==
    {<<"0", "0">>, <<"0", "1">>, <<"0", "2">>, <<"0", "3">>, <<"2", "3">>,
     <<"2", "5">>, <<"5", "9">>, <<"6", "0">>, <<"1">>, <<"a", "7">>}
Separators == {<<":">>, <<"-">>}
Suffixes == UNION {[1..n -> {"\n", "x"}] : n \in 0..MaxSuffix}
Durations ==
    {h \o s1 \o m \o s2 \o sec \o suffix :
        <<h, m, sec, s1, s2, suffix>> \in
            Fields \X Fields \X Fields \X Separators \X Separators \X Suffixes}

(***************************************************************************)
(* URLs.  urllib.parse.urlparse(url).path: the scheme, the network         *)
(* location, the fragment, the query and the parameters of the last        *)
(* segment are taken off.                                                  *)
(***************************************************************************)
MaxTail == 2

Letters == {"a", "b", "d", "g", "h", "m", "o", "p", "s", "t", "x"}
SchemeChars == Letters \cup Digits \cup {"+", "-", "."}
Http == <<"h", "t", "t", "p">>
Https == Http \o <<"s">>
\* The index of the first, of the last, character of str that is in chars; 0
\* when there is none.
IndexOfAny(str, chars) ==
    LET at == {i \in 1..Len(str) : str[i] \in chars}
    IN IF at = {} THEN 0 ELSE CHOOSE i \in at : \A j \in at : i <= j
LastIndexOf(str, char) ==
    LET at == {i \in 1..Len(str) : str[i] = char}
    IN IF at = {} THEN 0 ELSE CHOOSE i \in at : \A j \in at : i >= j
From(str, i) == SubSeq(str, i, Len(str))

UrlPath(url) ==
    LET colon == IndexOfAny(url, {":"})
        has_scheme == /\ colon > 1
                      /\ url[1] \in Letters
                      /\ \A i \in 1..(colon - 1) : url[i] \in SchemeChars
        scheme == IF has_scheme THEN SubSeq(url, 1, colon - 1) ELSE <<>>
        rest == IF has_scheme THEN From(url, colon + 1) ELSE url
        has_netloc == Len(rest) >= 2 /\ rest[1] = "/" /\ rest[2] = "/"
        after == IF ~has_netloc THEN rest
                 ELSE LET r == From(rest, 3)
                          d == IndexOfAny(r, {"/", "?", "#"})
                      IN IF d = 0 THEN <<>> ELSE From(r, d)
        no_query == SplitFirst(SplitFirst(after, "#"), "?")
        \* _splitparams, for the schemes of uses_params
        semi == IndexOfAny(From(no_query, LastIndexOf(no_query, "/") + 1), {";"})
    IN IF scheme \in {<<>>, Http, Https} /\ semi > 0
       THEN SubSeq(no_query, 1, LastIndexOf(no_query, "/") + semi - 1)
       ELSE no_query

\* pathlib.PurePath(path).name: the last of the parts of the path, the empty
\* ones and "." left out.
PurePathName(path) ==
    LET parts == SelectSeq(Split(path, "/"), LAMBDA part : part \notin {<<>>, <<".">>})
    IN IF parts = <<>> THEN <<>> ELSE parts[Len(parts)]

\* delete.py:123-127, on the characters of the link; extract_filename_from_url
\* above is this function on a link given by its path segments.
ExtractFilenameFromUrl(url) == PurePathName(UrlPath(url))

\* get_new_episode.py:422-427 and 329-336: the link and the file name derived
\* from an enclosure URL, as far as the item gets.
DeriveFromEnclosure(url) ==
    LET original_mp3_url == SplitFirst(url, "?")
        clean_url == SplitFirst(original_mp3_url, "?")
        filename == Basename(UrlPath(clean_url))
    IN IF ~EndsWith(original_mp3_url, DotMp3)
       THEN [skipped |-> "Not an MP3 URL"]
       ELSE IF ~EndsWith(filename, DotMp3)
       THEN [original_mp3_link |-> original_mp3_url, mp3_filename |-> None]
       ELSE [original_mp3_link |-> original_mp3_url, mp3_filename |-> filename]

\* Enclosure URLs: a base, a file name, characters after it, and perhaps ".mp3"
\* at the very end.
UrlBases ==
    {<<>>, Http \o <<":", "/", "/", "h", "/">>,
     Http \o <<":", "/", "/", "h", "/", "d", "/">>}
FileNames == {<<"a", ".", "m", "p", "3">>, <<"b", ".", "o", "g", "g">>, DotMp3}
Tails == UNION {[1..n -> {"?", "#", ";", "/", "x"}] : n \in 0..MaxTail}
Urls ==
    {base \o name \o tail \o end :
        <<base, name, tail, end>> \in UrlBases \X FileNames \X Tails \X {<<>>, DotMp3}}
\* The links whose last segment is a file name ingestion derives.
LinkBases ==
    {<<"/">>, <<"m", "p", "3", "/">>,
     Https \o <<":", "/", "/", "s", "/", "b", "/", "m", "p", "3", "/">>}
DerivedFileNames ==
    {DeriveFromEnclosure(url).mp3_filename :
        url \in {u \in Urls : /\ "mp3_filename" \in DOMAIN DeriveFromEnclosure(u)
                               /\ DeriveFromEnclosure(u).mp3_filename # None}}
Links == {base \o name : base \in LinkBases, name \in DerivedFileNames}

Pending(fn, arg) == [fn |-> fn, arg |-> arg, pending |-> TRUE]
Done(result) == [fn |-> call.fn, arg |-> call.arg, pending |-> FALSE, result |-> result]

FunctionInit ==
    /\ episodes = {}
    /\ watched_episodes = [e \in Ids |-> 0]
    /\ bucket = {}
    /\ downloads = {}
    /\ pc = "idle"
    /\ idx = 0
    /\ old_episodes = <<>>
    /\ safe_to_delete = <<>>
    /\ successful_episode_mp3s = <<>>
    /\ summary = NoSummary
    /\ hist = NoHist
    /\ init0 = [episodes |-> episodes, watched_episodes |-> watched_episodes,
                bucket |-> bucket, downloads |-> downloads]
    /\ feed = <<>>
    /\ max_episodes = 0
    /\ ing = IngIdle
    /\ call \in {Pending(fn, arg) :
                    fn \in {"validate_duration_format", "convert_in_seconds"},
                    arg \in Durations}
               \cup {Pending("process_episodes", arg) : arg \in Urls}
               \cup {Pending("extract_filename_from_url", arg) : arg \in Links}

\* get_new_episode.py:90-108.
ValidateDurationFormat ==
    /\ call.fn = "validate_duration_format"
    /\ call.pending
    /\ call' = Done(validate_duration_format(call.arg))
    /\ UNCHANGED <<store, rvars, feed, max_episodes, ing>>

\* get_new_episode.py:111-124.
ConvertInSeconds ==
    /\ call.fn = "convert_in_seconds"
    /\ call.pending
    /\ call' = Done(convert_in_seconds(call.arg))
    /\ UNCHANGED <<store, rvars, feed, max_episodes, ing>>

\* get_new_episode.py:421-427 and 436 (download_mp3, lines 329-336).
DeriveLinks ==
    /\ call.fn = "process_episodes"
    /\ call.pending
    /\ call' = Done(DeriveFromEnclosure(call.arg))
    /\ UNCHANGED <<store, rvars, feed, max_episodes, ing>>

\* delete.py:123-127.
ExtractFilename ==
    /\ call.fn = "extract_filename_from_url"
    /\ call.pending
    /\ call' = Done(ExtractFilenameFromUrl(call.arg))
    /\ UNCHANGED <<store, rvars, feed, max_episodes, ing>>

FunctionNext ==
    \/ ValidateDurationFormat
    \/ ConvertInSeconds
    \/ DeriveLinks
    \/ ExtractFilename

FunctionSpec == FunctionInit /\ [][FunctionNext]_vars

(***************************************************************************)
(* What the properties of the retention run speak of.                      *)
(***************************************************************************)
OldIds == Range(episode_uuids)
Present(e) == \E r \in episodes : r.id = e
LinkOf(e) == (CHOOSE r \in init0.episodes : r.id = e).mp3_link
HasAudio(e, blobs) ==
    LinkOf(e) # None /\ extract_filename_from_url(LinkOf(e)) \in blobs
AudioDeleteIssued(e) ==
    LinkOf(e) # None /\ extract_filename_from_url(LinkOf(e)) \in hist.adel
AllAbsent(e) == ~Present(e) /\ Rows(e) = 0 /\ ~HasAudio(e, bucket)
Untouched(e) ==
    /\ Present(e)
    /\ Rows(e) = init0.watched_episodes[e]
    /\ HasAudio(e, bucket) = HasAudio(e, init0.bucket)
Completed == pc = "done" /\ old_episodes # <<>>
NoWriter == hist.inserts = 0
RunStep ==
    \/ GetOldEpisodes \/ PreCheck \/ DwDelete \/ DwVerify \/ DeCheck \/ DeDelete
    \/ Mp3Init \/ Mp3Exists \/ Mp3Delete \/ Mp3Local \/ Summary

C2_EpisodeThenAudio ==
    NoWriter =>
        \A e \in OldIds :
            /\ init0.watched_episodes[e] = 0 =>
                   /\ AudioDeleteIssued(e) => e \in hist.edel
                   /\ (Completed /\ hist.faults = 0) =>
                          /\ e \in hist.edel
                          /\ HasAudio(e, init0.bucket) => AudioDeleteIssued(e)
            /\ (e \in hist.wdel /\ pc # "dw_verify" /\ e \notin Range(safe_to_delete)) =>
                   e \notin hist.edel /\ ~AudioDeleteIssued(e)

(***************************************************************************)
(* C3, as stated: the audio object of an episode is deleted only if its    *)
(* Episode row was deleted earlier in the run, so no Episode row is        *)
(* present while its audio object has been deleted by the run.             *)
(***************************************************************************)
C3_AudioOnlyAfterEpisode ==
    \A e \in Ids :
        (HasAudio(e, init0.bucket) /\ ~HasAudio(e, bucket)) => ~Present(e)

(***************************************************************************)
(* C4: with no writer other than the retention run, every WatchedEpisode   *)
(* row references an Episode row that is still present: no Episode row is  *)
(* deleted while a WatchedEpisode row with its id exists.                  *)
(***************************************************************************)
C4_NoOrphanWatched ==
    NoWriter => \A e \in Ids : Rows(e) > 0 => Present(e)

\* C4: an Episode row that had WatchedEpisode rows has been deleted.
C4_Witness ==
    /\ NoWriter
    /\ \E e \in Ids : ~Present(e) /\ init0.watched_episodes[e] > 0

(***************************************************************************)
(* C5: when the query for old episodes returns nothing, the run issues no  *)
(* delete call of any kind, changes nothing and returns without raising.   *)
(***************************************************************************)
C5_EmptyIsNoOp ==
    (pc \notin {"start", "raised"} /\ old_episodes = <<>>) =>
        /\ pc = "done"
        /\ hist.wdel = {} /\ hist.edel = {} /\ hist.adel = {} /\ hist.ldel = {}
        /\ episodes = init0.episodes
        /\ watched_episodes = init0.watched_episodes
        /\ bucket = init0.bucket
        /\ downloads = init0.downloads

\* C5: the query ran on a table that holds episodes, and returned none.
C5_Witness ==
    /\ pc = "done"
    /\ old_episodes = <<>>
    /\ episodes # {}
    /\ \E e \in Ids : Rows(e) > 0

(***************************************************************************)
(* C8: an exception of the Episode delete or of the audio delete of one    *)
(* episode never ends the run: the loop it is raised in goes on to every   *)
(* remaining episode, the run can always take its next step, and it ends   *)
(* with the final summary.                                                 *)
(***************************************************************************)
C8_DeleteErrorsAreCaught ==
    /\ pc = "raised" => (hist.eraised = {} /\ hist.araised = {})
    /\ pc \notin {"done", "raised"} => ENABLED RunStep
    /\ (old_episodes # <<>>
        /\ pc \in {"mp3_init", "mp3_exists", "mp3_delete", "mp3_local", "summary", "done"}) =>
           Range(safe_to_delete) \subseteq hist.etried
    /\ (old_episodes # <<>> /\ pc \in {"summary", "done"} /\ ~hist.storage_failed) =>
           \A k \in 1..Len(successful_episode_mp3s) :
               successful_episode_mp3s[k] # None =>
                   extract_filename_from_url(successful_episode_mp3s[k]) \in hist.atried
    /\ Completed => summary.logged

\* C8: the Episode delete of one episode raised, and the run went on to delete
\* the Episode row of a later one and reached the summary.
C8_Witness ==
    /\ Completed
    /\ summary.logged
    /\ \E e1 \in hist.eraised : \E e2 \in hist.edel : e1 < e2 /\ ~Present(e2)

C10_SummaryCounts ==
    (summary.logged /\ NoWriter) =>
        /\ summary.found = Len(old_episodes)
        /\ summary.processed = Cardinality({e \in OldIds : AllAbsent(e)})

(***************************************************************************)
(* C11, as stated: a retention run with no other writer leaves unchanged   *)
(* every Episode row whose publication_date is not before the cutoff, the  *)
(* WatchedEpisode rows that reference it and its audio object.             *)
(***************************************************************************)
C11_RecentUntouched ==
    NoWriter =>
        \A r \in init0.episodes :
            r.publication_date >= get_date_days_ago(days_ago) =>
                /\ r \in episodes
                /\ Rows(r.id) = init0.watched_episodes[r.id]
                /\ HasAudio(r.id, bucket) = HasAudio(r.id, init0.bucket)

\* C11: the run deleted the audio object of an old episode, and an episode
\* that is not old has the same mp3_link.
C11_Witness ==
    /\ Completed /\ NoWriter
    /\ \E e \in OldIds : \E r \in episodes :
          /\ r.publication_date >= get_date_days_ago(days_ago)
          /\ HasAudio(e, init0.bucket)
          /\ HasAudio(r.id, init0.bucket)
          /\ r.mp3_link = LinkOf(e)
          /\ ~HasAudio(r.id, bucket)

(***************************************************************************)
(* C18: with an external writer of WatchedEpisode rows, the run deletes an *)
(* Episode row while a WatchedEpisode row references it.  A row inserted   *)
(* before the double check is seen by it and the Episode delete is not     *)
(* issued; the Episode delete is issued for an episode that has a row only *)
(* when the row was inserted after the double check; and once an Episode   *)
(* row is gone, the run never removes the rows that reference it.          *)
(***************************************************************************)
C18_RaceWindow ==
    [][\A e \in Ids :
          /\ (pc = "de_check" /\ safe_to_delete[idx] = e /\ Rows(e) > 0) =>
                 (pc' # "de_delete" /\ Present(e)')
          /\ (Present(e) /\ ~Present(e)' /\ Rows(e) > 0) =>
                 (pc = "de_delete" /\ e \in hist.raced)
          /\ (~Present(e) /\ Rows(e) > 0) =>
                 (~Present(e)' /\ Rows(e)' >= Rows(e))]_vars

\* C18: a row was inserted between the double check and the Episode delete of
\* an episode, and the run has ended with the Episode row gone and the row left.
C18_Witness ==
    /\ Completed
    /\ summary.logged
    /\ \E e \in hist.raced : ~Present(e) /\ Rows(e) > 0 /\ e \in hist.edel

\* The second run has made its query.
SecondQueryDone == hist.run = "second" /\ pc \notin {"start", "raised"}

(***************************************************************************)
(* C12, as stated: every old episode the first run left something of (its  *)
(* Episode row, a WatchedEpisode row or its audio object) is selected      *)
(* again by the next run's query.                                          *)
(***************************************************************************)
C12_LeftoverIsReselected ==
    SecondQueryDone => hist.unfinished \subseteq OldIds

(***************************************************************************)
(* C12, amended: the next run selects again exactly the old episodes whose *)
(* Episode row the first run left; an old episode whose Episode row was    *)
(* deleted while its audio object or a WatchedEpisode row is left is not   *)
(* selected by the next run.                                               *)
(***************************************************************************)
C12_KeptRowIsReselected ==
    SecondQueryDone =>
        /\ hist.kept \subseteq OldIds
        /\ (hist.unfinished \ hist.kept) \cap OldIds = {}

\* C12: the first run left the row of one old episode, whose WatchedEpisode
\* rows it could not clear, and the second run selected it and removed it.
C12_Witness ==
    /\ hist.run = "second"
    /\ pc = "done"
    /\ \E e \in hist.kept :
          /\ init0.watched_episodes[e] > 0
          /\ e \in OldIds
          /\ ~Leftover(e)

(***************************************************************************)
(* What the properties of the ingestion runs speak of.                     *)
(***************************************************************************)
SecondRunOver == ing.pc = "done"
\* The feed items that pass the checks of get_new_episode.py:403 and 423.
Insertable(item) ==
    /\ {"duration", "pubDate", "url"} \subseteq DOMAIN item
    /\ validate_duration_format(item.duration)
    /\ EndsWith(SplitFirst(item.url, "?"), DotMp3)

C7_UniqueDateAndLink ==
    \A r1, r2 \in episodes :
        r1 # r2 => /\ r1.publication_date # r2.publication_date
                   /\ r1.original_mp3_link # r2.original_mp3_link

\* Two runs are over, one inserted a row next to a row of the initial table,
\* and the feed held an insertable item for a link that was already stored.
C7_Witness ==
    /\ SecondRunOver
    /\ init0.episodes # {}
    /\ ing.inserted[1] + ing.inserted[2] > 0
    /\ \E i \in 1..Len(feed) :
          /\ Insertable(feed[i])
          /\ \E r \in init0.episodes :
                /\ r.original_mp3_link = SplitFirst(feed[i].url, "?")
                /\ r.publication_date # convert_pubdate_format(feed[i].pubDate)

\* The feed items a record or row was built from: same day, same stripped URL.
ItemsOf(rec) ==
    {i \in 1..Len(feed) :
        /\ Insertable(feed[i])
        /\ convert_pubdate_format(feed[i].pubDate) = rec.publication_date
        /\ SplitFirst(feed[i].url, "?") = rec.original_mp3_link}
\* The rows the ingestion runs inserted.
RowsInserted == episodes \ init0.episodes

\* A duration is the length measured on the file, or else the seconds that
\* convert_in_seconds gives for the duration the feed declares.
MeasuredOrConverted(rec) ==
    \/ rec.duration \in {[float |-> length] : length \in Lengths}
    \/ \E i \in ItemsOf(rec) :
          rec.duration = [float |-> convert_in_seconds(feed[i].duration).returned]

(***************************************************************************)
(* C13, as stated: when get_mp3_duration returns None, the duration of the *)
(* Episode record, and of the row stored for it, is the feed-declared      *)
(* duration converted to seconds by convert_in_seconds; so every duration  *)
(* is a measured length or such a number of seconds.                       *)
(***************************************************************************)
C13_FallbackIsSeconds ==
    /\ (ing.pc \in {"upload", "public_url", "save"}) => MeasuredOrConverted(ing.episode)
    /\ \A r \in RowsInserted : MeasuredOrConverted(r)

\* C13: the measure failed and the row was stored with what line 446 built.
C13_Witness ==
    \E r \in RowsInserted : \E i \in ItemsOf(r) :
        r.duration = [tuple |-> <<feed[i].duration>>]

\* A data-shape failure of a feed item: an expected field is missing, the
\* duration is malformed, or the enclosure is no MP3.
DataShapeFailure(item) ==
    \/ {"duration", "pubDate", "url"} \ DOMAIN item # {}
    \/ ~validate_duration_format(item.duration)
    \/ ~EndsWith(SplitFirst(item.url, "?"), DotMp3)

(***************************************************************************)
(* C14, as stated: a feed item with a data-shape failure is skipped and    *)
(* the loop goes on with the items that follow; no run is ended by the     *)
(* exception such an item raises.                                          *)
(***************************************************************************)
C14_ShapeFailureIsSkipped ==
    \A i \in 1..Len(feed) :
        DataShapeFailure(feed[i]) =>
            ~(ing.pc = "returned" /\ ing.k = i /\ ing.exception = "KeyError")

\* C14: an item with a missing field ended the first run before an insertable
\* item that follows it, and nothing was inserted.
C14_Witness ==
    /\ ing.pc = "returned"
    /\ ing.run = "first"
    /\ ing.exception = "KeyError"
    /\ ing.k < Len(feed)
    /\ Insertable(feed[ing.k + 1])
    /\ ~AlreadyInDatabase([publication_date |-> convert_pubdate_format(feed[ing.k + 1].pubDate),
                           original_mp3_link |-> SplitFirst(feed[ing.k + 1].url, "?")])

(***************************************************************************)
(* What the properties of the string functions speak of.                   *)
(***************************************************************************)
Returned(fn) == call.fn = fn /\ ~call.pending
\* A string of the form HH:MM:SS and nothing else, every field in its range.
IsHHMMSS(str) ==
    /\ Len(str) = 8
    /\ \A i \in {1, 2, 4, 5, 7, 8} : str[i] \in Digits
    /\ str[3] = ":" /\ str[6] = ":"
    /\ DigitValue[str[1]] * 10 + DigitValue[str[2]] \in 0..23
    /\ DigitValue[str[4]] * 10 + DigitValue[str[5]] \in 0..59
    /\ DigitValue[str[7]] * 10 + DigitValue[str[8]] \in 0..59

\* The rows inserted and the list to return name objects that are in storage,
\* and the list holds only Episode records whose row was inserted.
UploadedBeforeInsert ==
    /\ \A r \in RowsInserted : extract_filename_from_url(r.mp3_link) \in bucket
    /\ (ing.pc = "save") =>
          /\ ing.mp3_filename \in bucket
          /\ ing.episode.mp3_link = PublicUrl(ing.mp3_filename)
    /\ \A i \in 1..Len(ing.processed_episodes) :
          NewRow(ing.processed_episodes[i]).mp3_link \in {r.mp3_link : r \in RowsInserted}
    /\ Len(ing.processed_episodes) = ing.inserted[Run]

\* A step of the run on which upload_file returns False inserts nothing and
\* leaves the item; a step that inserts a row is the save of an Episode record
\* whose file is in storage and whose mp3_link is its public URL, and it is
\* the only step that adds to the list.
InsertOnlyAfterUpload ==
    /\ (ing.pc = "upload" /\ ing'.pc # "upload" /\ ing'.pc # "public_url") =>
          /\ episodes' = episodes
          /\ ing'.processed_episodes = ing.processed_episodes
          /\ ing'.pc \in {"item", "returned"}
          /\ ing'.count = ing.count + 1
    /\ (episodes' # episodes) =>
          /\ ing.pc = "save"
          /\ ing.mp3_filename \in bucket
          /\ \E r \in episodes' \ episodes :
                /\ episodes' = episodes \cup {r}
                /\ r.mp3_link = PublicUrl(ing.mp3_filename)
          /\ ing'.processed_episodes = Append(ing.processed_episodes, ing.episode)
    /\ (ing'.processed_episodes # ing.processed_episodes /\ ing'.processed_episodes # <<>>) =>
          episodes' # episodes

(***************************************************************************)
(* C19: an Episode row is inserted only after the audio file of the item   *)
(* was uploaded and its public URL obtained.  When upload_file fails no    *)
(* row is inserted for the item; every inserted row has an mp3_link that   *)
(* names an object that was in storage when the row was inserted; and the  *)
(* returned list holds only the items whose row was inserted.              *)
(***************************************************************************)
C19_InsertAfterUpload == []UploadedBeforeInsert /\ [][InsertOnlyAfterUpload]_vars

\* C19: in the first run the upload of one item failed, its file stayed local
\* with no object stored, and the row of another item was inserted and returned.
C19_Witness ==
    /\ ing.pc = "returned"
    /\ ing.run = "first"
    /\ ing.failures[1] = 1
    /\ \E f \in downloads \ bucket :
          \A r \in episodes : extract_filename_from_url(r.mp3_link) # f
    /\ Len(ing.processed_episodes) = 1
    /\ Cardinality(RowsInserted) = 1

(***************************************************************************)
(* C15, as stated: validate_duration_format returns true exactly for the   *)
(* strings of the form HH:MM:SS with hours in 0..23 and minutes and        *)
(* seconds in 0..59, and false for every other string.                     *)
(***************************************************************************)
C15_AcceptsExactlyHHMMSS ==
    Returned("validate_duration_format") => (call.result <=> IsHHMMSS(call.arg))

\* C15: a well-formed duration followed by a line feed is accepted.
C15_Witness ==
    /\ Returned("validate_duration_format")
    /\ call.result
    /\ Len(call.arg) = 9
    /\ call.arg[9] = "\n"
    /\ IsHHMMSS(SubSeq(call.arg, 1, 8))

(***************************************************************************)
(* C16: for a string validate_duration_format accepts, convert_in_seconds  *)
(* returns hours * 3600 + minutes * 60 + seconds, a number in 0..86399     *)
(* (3723 for "01:02:03"); for a string it rejects, convert_in_seconds      *)
(* raises an error and returns nothing.                                    *)
(***************************************************************************)
C16_SecondsOrError ==
    Returned("convert_in_seconds") =>
        IF validate_duration_format(call.arg)
        THEN /\ call.result =
                  [returned |-> Int2(call.arg, 1) * 3600 + Int2(call.arg, 4) * 60
                                + Int2(call.arg, 7)]
             /\ call.result.returned \in 0..86399
             /\ call.arg = <<"0", "1", ":", "0", "2", ":", "0", "3">> =>
                    call.result.returned = 3723
        ELSE call.result = [raised |-> "ValueError"]

\* C16: convert_in_seconds has returned 3723 for "01:02:03".
C16_Witness ==
    /\ Returned("convert_in_seconds")
    /\ call.arg = <<"0", "1", ":", "0", "2", ":", "0", "3">>
    /\ call.result = [returned |-> 3723]

\* U with everything from its first "?" removed.
BeforeQuery(url) ==
    CHOOSE prefix \in {SubSeq(url, 1, n) : n \in 0..Len(url)} :
        /\ \A i \in 1..Len(prefix) : prefix[i] # "?"
        /\ Len(prefix) < Len(url) => url[Len(prefix) + 1] = "?"
\* The text after the last "/" of a URL that has neither fragment nor parameters.
Plain(url) == \A i \in 1..Len(url) : url[i] \notin {"#", ";"}
TextAfterLastSlash(url) ==
    CHOOSE suffix \in {SubSeq(url, n, Len(url)) : n \in 1..(Len(url) + 1)} :
        /\ \A i \in 1..Len(suffix) : suffix[i] # "/"
        /\ Len(suffix) < Len(url) => url[Len(url) - Len(suffix)] = "/"

(***************************************************************************)
(* C17: for an enclosure URL U the derived original_mp3_link is U with     *)
(* everything from the first "?" removed (the item is skipped when that    *)
(* does not end in ".mp3"), and the derived file name is the last segment  *)
(* of the path of that stripped URL; extract_filename_from_url applied to  *)
(* a link that ends in such a file name returns the file name.             *)
(***************************************************************************)
C17_LinkAndFilename ==
    /\ Returned("process_episodes") =>
          LET stripped == BeforeQuery(call.arg) IN
          /\ ("skipped" \in DOMAIN call.result) <=> ~EndsWith(stripped, DotMp3)
          /\ ("skipped" \notin DOMAIN call.result) =>
                /\ call.result.original_mp3_link = stripped
                /\ call.result.mp3_filename # None =>
                      /\ call.result.mp3_filename = PurePathName(UrlPath(stripped))
                      /\ Plain(stripped) =>
                            call.result.mp3_filename = TextAfterLastSlash(stripped)
    /\ Returned("extract_filename_from_url") =>
          /\ \E base \in LinkBases, name \in DerivedFileNames :
                call.arg = base \o name /\ call.result = name
          /\ call.result = extract_filename_from_url(Split(call.arg, "/"))

\* C17: http://h/d/a.mp3?x gave the link http://h/d/a.mp3 and the file a.mp3.
C17_Witness ==
    /\ Returned("process_episodes")
    /\ call.arg = Http \o <<":", "/", "/", "h", "/", "d", "/", "a", ".", "m", "p", "3", "?", "x">>
    /\ call.result =
          [original_mp3_link |->
               Http \o <<":", "/", "/", "h", "/", "d", "/", "a", ".", "m", "p", "3">>,
           mp3_filename |-> <<"a", ".", "m", "p", "3">>]
====
